---- MODULE Spec2Model ----
\* A state-machine model of src/src/extension.ts: the server lifecycle
\* (activate / start command / stop command / deactivate / dispose) and the
\* session transport of one Express app (GET /sse, POST /message, the pending
\* message queue and the 'close' listener), and the call_tool request handler.
EXTENDS Integers, Sequences, FiniteSets, TLC

\* ---------------------------------------------------------------- bounds
\* Number of POST /message requests over a run.
MaxMsgs == 2
\* Number of GET /sse connections over a run.
MaxConns == 2
\* Number of startMcpServer calls over a run.
MaxStarts == 2
\* Number of locations the reference provider returns at most.
MaxLocs == 2

Msgs == 1..MaxMsgs
Conns == 1..MaxConns
Starts == 1..MaxStarts

\* ---------------------------------------------------------------- state
VARIABLES
    \* lifecycle (module-level globals and the activate closure)
    mcpServer,      \* 0 = undefined, k = the Server object made by the k-th startMcpServer
    httpServer,     \* 0 = undefined, k = the http.Server made by the k-th startMcpServer
    started,        \* number of startMcpServer calls so far
    serverInfo,     \* 0 = none, k = what activate's startMcpServer returned
    commands,       \* TRUE once activate has registered the two commands
    deactivated,    \* deactivate() has run
    disposed,       \* the subscription's dispose() has run
    srvCloses,      \* [Starts -> Nat]: close() calls on each Server object
    lsn,            \* [Starts -> {"none","listening","unbound","closed"}]
    lsnCloses,      \* [Starts -> Nat]: close() calls on each http.Server
    lastOp,         \* what the last lifecycle operation reported
    \* session transport (the closure variables of the current app)
    transport,      \* 0 = null, c = the SSEServerTransport made for connection c
    messageQueue,   \* sequence of queued message ids
    tstate,         \* [Conns -> {"none","created","connected","closed"}]
    ssePc,          \* [Conns -> position of the GET /sse handler]
    cur,            \* [Conns -> message the drain loop awaits, 0 if none]
    listener,       \* [Conns -> BOOLEAN]: req.on('close') registered
    gone,           \* [Conns -> BOOLEAN]: the client has disconnected
    mstate,         \* [Msgs -> position of the message]
    resp,           \* [Msgs -> what the code wrote to the message's response]
    misrouted,      \* a POST was handed over while not live, or queued while live
    delivered,      \* sequence of message ids handed to handlePostMessage
    nextMsg,        \* id of the next POST /message
    nextConn,       \* id of the next GET /sse
    fifoPhase       \* "pre": no GET /sse yet; "draining": a GET has arrived, no
                    \* POST since, no drain loop has ended; "drained": a drain
                    \* loop has ended, still no POST since the first GET;
                    \* "off": a POST has arrived since the first GET
VARIABLES
    \* one call_tool request (the CallToolRequestSchema handler)
    call,           \* the request and what its collaborators will do
    toolPc,         \* "idle": no request; "pending": received; "done": handler ended
    response,       \* what the handler returned
    providerCalls   \* calls of vscode.executeReferenceProvider made for the request

lifeVars == <<mcpServer, httpServer, started, serverInfo, commands, deactivated,
              disposed, srvCloses, lsn, lsnCloses, lastOp>>
sessVars == <<transport, messageQueue, tstate, ssePc, cur, listener, gone, mstate,
              resp, misrouted, delivered, nextMsg, nextConn, fifoPhase>>
toolVars == <<call, toolPc, response, providerCalls>>
vars == <<lifeVars, sessVars, toolVars>>

\* ---------------------------------------------------------------- helpers
\* The session state of spec section 4.3, read off the closure variables.
SessionState ==
    IF transport = 0 THEN "absent"
    ELSE IF tstate[transport] = "connected" THEN "live"
    ELSE IF tstate[transport] = "closed" THEN "closed"
    ELSE "establishing"

\* messageQueue.shift(): the element taken and the rest.
ShiftLast(q) == <<q[Len(q)], SubSeq(q, 1, Len(q) - 1)>>
Shift(q) == <<Head(q), Tail(q)>>

\* Whether message m is in the pending queue.
InQueue(m) == \E i \in 1..Len(messageQueue) : messageQueue[i] = m

\* Requests reach the current app once its http.Server has been bound (a
\* closed listener keeps its open connections), until the extension host
\* shuts down with deactivate().
AppReachable ==
    /\ started > 0
    /\ ~deactivated
    /\ lsn[started] \in {"listening", "closed"}

\* ---------------------------------------------------------------- call_tool
\* The tool names list_tools advertises (the ListToolsRequestSchema handler).
ListToolsWithGhost == <<"find_usages", "unknown_tool">>
ListTools == <<"find_usages">>

\* Tool names a client may ask for.
RequestedNames == {"find_usages", "unknown_tool", "list_tools"}

\* Shapes of `arguments`: its JavaScript type, what textDocument.uri holds and
\* what position holds (the last two only matter for an object).
ArgShapes ==
    {[kind |-> k, uri |-> "missing", position |-> "valid"] :
        k \in {"undefined", "null", "string"}}
    \cup {[kind |-> "object", uri |-> u, position |-> p] :
        u \in {"missing", "number", "string", "malformed"},
        p \in {"valid", "negative"}}

\* `!args`
Falsy(a) == a.kind \in {"undefined", "null"}
\* `typeof args`
TypeOf(a) == IF a.kind = "null" THEN "object" ELSE a.kind

\* vscode.Uri.parse(args.textDocument?.uri): it returns a Uri object or throws,
\* never a falsy value. A string it cannot accept throws; what it does with a
\* missing or non-string value is the callee's choice (parseThrows).
UriParse(a, parseThrows) ==
    IF a.uri = "malformed" THEN "throws"
    ELSE IF a.uri = "string" THEN "Uri"
    ELSE IF parseThrows THEN "throws" ELSE "Uri"

\* new vscode.Position(line, character) rejects a negative coordinate.
PositionThrows(a) == a.position = "negative"

\* Locations the provider may return: a Uri object and a range.
Loc(path, l) ==
    [uri |-> [scheme |-> "file", path |-> path],
     range |-> [start |-> [line |-> l, character |-> l + 1],
                end |-> [line |-> l, character |-> l + 2]]]
Locations == {Loc("/b.ts", 3), Loc("/b.ts", 7), Loc("/a.ts", 0)}

SeqsUpTo(S, n) == UNION {[1..k -> S] : k \in 0..n}

\* What the provider does: it throws (for some cause), returns no value, or
\* returns a list of locations.
Causes == {"timeout", "no such file"}
ProviderOutcomes ==
    {[kind |-> "throws", cause |-> c, locs |-> <<>>] : c \in Causes}
    \cup {[kind |-> "undefined", cause |-> "", locs |-> <<>>]}
    \cup {[kind |-> "locations", cause |-> "", locs |-> l] :
            l \in SeqsUpTo(Locations, MaxLocs)}

\* A request together with the behaviour of what it calls.
Calls ==
    [name : RequestedNames, args : ArgShapes, parseThrows : BOOLEAN,
     provider : ProviderOutcomes, previewOk : [1..MaxLocs -> BOOLEAN]]

NoCall ==
    [name |-> "", args |-> [kind |-> "undefined", uri |-> "missing", position |-> "valid"],
     parseThrows |-> FALSE,
     provider |-> [kind |-> "undefined", cause |-> "", locs |-> <<>>],
     previewOk |-> [i \in 1..MaxLocs |-> TRUE]]

\* A response envelope {content: [{type: "text", text}], isError}: the text is
\* a list of string pieces, or the serialization of a reference list; isError
\* is "true", "false" or "absent" (the property is not set).
Envelope(pieces, isErr) ==
    [sent |-> TRUE, text |-> pieces, json |-> FALSE, refs |-> <<>>, isError |-> isErr]
\* { content: [{ type: "text", text: JSON.stringify(result) }] } (line 256)
JsonEnvelope(refs) ==
    [sent |-> TRUE, text |-> <<>>, json |-> TRUE, refs |-> refs, isError |-> "absent"]
NoResponse ==
    [sent |-> FALSE, text |-> <<>>, json |-> FALSE, refs |-> <<>>, isError |-> "absent"]

\* location.uri.toString()
UriToString(u) == <<u.scheme, "://", u.path>>

\* document.lineAt(location.range.start.line).text.trim()
Preview(loc) == <<"line", UriToString(loc.uri), loc.range.start.line>>

\* The object pushed for one location (lines 223-236).
ReferenceEntry(loc) ==
    [uri |-> UriToString(loc.uri),
     range |-> [start |-> [line |-> loc.range.start.line,
                           character |-> loc.range.start.character],
                end |-> [line |-> loc.range.end.line,
                         character |-> loc.range.end.character]],
     preview |-> Preview(loc)]

\* The loop over the locations (lines 218-241), from index i with the
\* references built so far: a location whose preview cannot be resolved throws
\* into the catch of line 237, which logs and pushes nothing.
RECURSIVE BuildFrom(_, _, _, _)
BuildFrom(locs, previewOk, i, refs) ==
    IF i > Len(locs) THEN refs
    ELSE BuildFrom(locs, previewOk, i + 1,
                   IF previewOk[i] THEN Append(refs, ReferenceEntry(locs[i])) ELSE refs)

BuildReferencesReversed(locs, previewOk) ==
    LET r == BuildFrom(locs, previewOk, 1, <<>>)
    IN [i \in 1..Len(r) |-> r[Len(r) + 1 - i]]
BuildReferences(locs, previewOk) == BuildFrom(locs, previewOk, 1, <<>>)

\* The catch around the provider call (lines 246-249): the cause is logged and
\* a new Error with a fixed message is thrown.
ProviderCatchLeak(cause) == cause
ProviderCatch(cause) == "Failed to find references"

\* The outer catch (lines 257-263).
OuterCatchRethrow(message) == NoResponse
OuterCatch(message) == Envelope(<<"Error: ">> \o message, "true")

\* case "find_usages" (lines 178-250) and the return of line 256.
FindUsages(c) ==
    IF Falsy(c.args) \/ TypeOf(c.args) # "object"
    THEN Envelope(<<"Invalid arguments: arguments must be an object.">>, "true")
    ELSE IF UriParse(c.args, c.parseThrows) = "throws"
    THEN OuterCatch(<<"UriError">>)
    ELSE IF UriParse(c.args, c.parseThrows) # "Uri"
    THEN Envelope(<<"Invalid arguments: textDocument.uri is required.">>, "true")
    ELSE IF PositionThrows(c.args)
    THEN OuterCatch(<<"Illegal argument: line must be non-negative">>)
    ELSE IF c.provider.kind = "throws"
    THEN OuterCatch(<<ProviderCatch(c.provider.cause)>>)
    ELSE IF c.provider.kind = "undefined"
    THEN Envelope(<<"No references found">>, "false")
    ELSE JsonEnvelope(BuildReferences(c.provider.locs, c.previewOk))

\* Whether the handler reaches the executeCommand call of line 202.
ReachesProvider(c) ==
    /\ c.name = "find_usages"
    /\ ~(Falsy(c.args) \/ TypeOf(c.args) # "object")
    /\ UriParse(c.args, c.parseThrows) = "Uri"
    /\ ~PositionThrows(c.args)

\* The CallToolRequestSchema handler (lines 172-264).
CallToolHandler(c) ==
    IF c.name = "find_usages" THEN FindUsages(c)
    ELSE OuterCatch(<<"Unknown tool: ", c.name>>)

\* ---------------------------------------------------------------- initial state
\* The extension is loaded and activate() has not run.
Init ==
    /\ mcpServer = 0
    /\ httpServer = 0
    /\ started = 0
    /\ serverInfo = 0
    /\ commands = FALSE
    /\ deactivated = FALSE
    /\ disposed = FALSE
    /\ srvCloses = [k \in Starts |-> 0]
    /\ lsn = [k \in Starts |-> "none"]
    /\ lsnCloses = [k \in Starts |-> 0]
    /\ lastOp = "none"
    /\ transport = 0
    /\ messageQueue = <<>>
    /\ tstate = [c \in Conns |-> "none"]
    /\ ssePc = [c \in Conns |-> "idle"]
    /\ cur = [c \in Conns |-> 0]
    /\ listener = [c \in Conns |-> FALSE]
    /\ gone = [c \in Conns |-> FALSE]
    /\ mstate = [m \in Msgs |-> "new"]
    /\ resp = [m \in Msgs |-> "none"]
    /\ misrouted = FALSE
    /\ delivered = <<>>
    /\ nextMsg = 1
    /\ nextConn = 1
    /\ fifoPhase = "pre"
    /\ call = NoCall
    /\ toolPc = "idle"
    /\ response = NoResponse
    /\ providerCalls = 0

\* ---------------------------------------------------------------- lifecycle
\* A new Express app: fresh `transport` and `messageQueue` closure variables.
\* Requests of the app it replaces are no longer tracked.
NewApp ==
    /\ transport' = 0
    /\ messageQueue' = <<>>
    /\ tstate' = [c \in Conns |-> "none"]
    /\ ssePc' = [c \in Conns |-> IF c < nextConn THEN "orphaned" ELSE "idle"]
    /\ cur' = [c \in Conns |-> 0]
    /\ listener' = [c \in Conns |-> FALSE]
    /\ gone' = [c \in Conns |-> c < nextConn]
    /\ mstate' = [m \in Msgs |-> IF m < nextMsg THEN "orphaned" ELSE "new"]
    /\ resp' = [m \in Msgs |-> "none"]
    /\ misrouted' = FALSE
    /\ delivered' = <<>>
    /\ fifoPhase' = "pre"
    /\ UNCHANGED <<nextMsg, nextConn>>

\* startMcpServer(): assigns both globals before it reads the bound port; it
\* throws at `httpServer.address().port` when the listener could not bind.
StartMcpServer(bindOk) ==
    /\ started < MaxStarts
    /\ started' = started + 1
    /\ mcpServer' = started + 1
    /\ httpServer' = started + 1
    /\ lsn' = [lsn EXCEPT ![started + 1] = IF bindOk THEN "listening" ELSE "unbound"]
    /\ NewApp

\* activate(): the first startMcpServer; the dispose subscription and the two
\* commands are registered only when it returned.
Activate ==
    /\ started = 0
    /\ ~deactivated
    /\ \E bindOk \in BOOLEAN :
        /\ StartMcpServer(bindOk)
        /\ serverInfo' = IF bindOk THEN 1 ELSE 0
        /\ commands' = bindOk
        /\ lastOp' = IF bindOk THEN "activate:started" ELSE "activate:failed"
    /\ UNCHANGED <<deactivated, disposed, srvCloses, lsnCloses>>
    /\ UNCHANGED toolVars

CommandsAvailable == commands /\ ~deactivated /\ ~disposed

\* langmcpserver.startServer with httpServer set: reports "already running";
\* reading the port of a listener that is not bound throws into the catch.
StartRejected ==
    /\ CommandsAvailable
    /\ httpServer # 0
    /\ lastOp' = IF lsn[httpServer] = "listening"
                 THEN "start:alreadyRunning" ELSE "start:error"
    /\ UNCHANGED <<mcpServer, httpServer, started, serverInfo, commands, deactivated,
                   disposed, srvCloses, lsn, lsnCloses>>
    /\ UNCHANGED sessVars
    /\ UNCHANGED toolVars

\* The guard of the start command (line 60).
StartGuardNone == TRUE
StartGuard == httpServer = 0

\* langmcpserver.startServer with httpServer undefined.
StartFresh ==
    /\ CommandsAvailable
    /\ StartGuard
    /\ \E bindOk \in BOOLEAN :
        /\ StartMcpServer(bindOk)
        /\ lastOp' = IF bindOk THEN "start:started" ELSE "start:error"
    /\ UNCHANGED <<serverInfo, commands, deactivated, disposed, srvCloses, lsnCloses>>
    /\ UNCHANGED toolVars

\* close() on an http.Server: a listening one stops listening.
CloseListener(l, k) == [l EXCEPT ![k] = IF @ = "listening" THEN "closed" ELSE @]

\* langmcpserver.stopServer with nothing running.
StopNothing ==
    /\ CommandsAvailable
    /\ httpServer = 0 /\ mcpServer = 0
    /\ lastOp' = "stop:notRunning"
    /\ UNCHANGED <<mcpServer, httpServer, started, serverInfo, commands, deactivated,
                   disposed, srvCloses, lsn, lsnCloses>>
    /\ UNCHANGED sessVars
    /\ UNCHANGED toolVars

\* langmcpserver.stopServer: closes and clears what is set.
StopCommand ==
    /\ CommandsAvailable
    /\ ~(httpServer = 0 /\ mcpServer = 0)
    /\ srvCloses' = IF mcpServer # 0
                    THEN [srvCloses EXCEPT ![mcpServer] = @ + 1] ELSE srvCloses
    /\ mcpServer' = 0
    /\ lsnCloses' = IF httpServer # 0
                    THEN [lsnCloses EXCEPT ![httpServer] = @ + 1] ELSE lsnCloses
    /\ lsn' = IF httpServer # 0 THEN CloseListener(lsn, httpServer) ELSE lsn
    /\ httpServer' = 0
    /\ lastOp' = "stop:stopped"
    /\ UNCHANGED <<started, serverInfo, commands, deactivated, disposed>>
    /\ UNCHANGED sessVars
    /\ UNCHANGED toolVars

\* deactivate(): closes the globals that are set and leaves them set. The
\* extension host shuts down with it: its requests are no longer tracked.
Deactivate ==
    /\ started > 0
    /\ ~deactivated
    /\ deactivated' = TRUE
    /\ srvCloses' = IF mcpServer # 0
                    THEN [srvCloses EXCEPT ![mcpServer] = @ + 1] ELSE srvCloses
    /\ lsnCloses' = IF httpServer # 0
                    THEN [lsnCloses EXCEPT ![httpServer] = @ + 1] ELSE lsnCloses
    /\ lsn' = IF httpServer # 0 THEN CloseListener(lsn, httpServer) ELSE lsn
    /\ lastOp' = "deactivate"
    /\ NewApp
    /\ UNCHANGED <<mcpServer, httpServer, started, serverInfo, commands, disposed>>
    /\ UNCHANGED toolVars

\* The subscription's dispose(): closes the handles activate captured; the
\* host disposes subscriptions after it has called deactivate().
Dispose ==
    /\ deactivated
    /\ serverInfo # 0
    /\ ~disposed
    /\ disposed' = TRUE
    /\ srvCloses' = [srvCloses EXCEPT ![serverInfo] = @ + 1]
    /\ lsnCloses' = [lsnCloses EXCEPT ![serverInfo] = @ + 1]
    /\ lsn' = CloseListener(lsn, serverInfo)
    /\ lastOp' = "dispose"
    /\ UNCHANGED <<mcpServer, httpServer, started, serverInfo, commands, deactivated>>
    /\ UNCHANGED sessVars
    /\ UNCHANGED toolVars

\* ---------------------------------------------------------------- POST /message
\* The test of line 324.
NoTransport == transport = 0

\* POST /message with no transport: the message is pushed and the handler
\* returns; nothing is written to the response.
PostQueued ==
    /\ AppReachable
    /\ nextMsg <= MaxMsgs
    /\ NoTransport
    /\ messageQueue' = Append(messageQueue, nextMsg)
    /\ mstate' = [mstate EXCEPT ![nextMsg] = "queued"]
    /\ misrouted' = (misrouted \/ SessionState = "live")
    /\ fifoPhase' = IF fifoPhase = "pre" THEN "pre" ELSE "off"
    /\ nextMsg' = nextMsg + 1
    /\ UNCHANGED <<transport, tstate, ssePc, cur, listener, gone, resp, delivered,
                   nextConn>>
    /\ UNCHANGED lifeVars
    /\ UNCHANGED toolVars

\* POST /message with a transport: handlePostMessage is called and awaited.
\* On success the transport has completed the response; on failure the catch
\* writes the 500 JSON-RPC error envelope. The continuation after the await
\* touches only this request's response, so the outcome is drawn at the call.
PostDirect ==
    /\ AppReachable
    /\ nextMsg <= MaxMsgs
    /\ ~NoTransport
    /\ delivered' = Append(delivered, nextMsg)
    /\ mstate' = [mstate EXCEPT ![nextMsg] = "done"]
    /\ \E ok \in BOOLEAN :
        resp' = [resp EXCEPT ![nextMsg] = IF ok THEN "handled" ELSE "error500"]
    /\ misrouted' = (misrouted \/ SessionState # "live")
    /\ fifoPhase' = IF fifoPhase = "pre" THEN "pre" ELSE "off"
    /\ nextMsg' = nextMsg + 1
    /\ UNCHANGED <<transport, messageQueue, tstate, ssePc, cur, listener, gone,
                   nextConn>>
    /\ UNCHANGED lifeVars
    /\ UNCHANGED toolVars

\* ---------------------------------------------------------------- GET /sse
\* The drain loop from its test `messageQueue.length > 0` up to its next
\* suspension, with the message and response maps ms, rs as they stand:
\*  - empty queue: the loop ends and the 'close' listener is registered;
\*  - transport null: `transport.handlePostMessage` throws a TypeError before
\*    any call is made, the inner catch logs it, and the loop goes on without
\*    suspending, so every queued message is shifted and none is handed over;
\*  - otherwise the head is shifted, handed to handlePostMessage and awaited.
DrainFrom(c, ms, rs) ==
    IF messageQueue = <<>> \/ transport = 0
    THEN /\ messageQueue' = <<>>
         /\ mstate' = [m \in Msgs |->
                         IF InQueue(m) THEN "dropped" ELSE ms[m]]
         /\ resp' = rs
         /\ ssePc' = [ssePc EXCEPT ![c] = "done"]
         /\ cur' = [cur EXCEPT ![c] = 0]
         /\ listener' = [listener EXCEPT ![c] = TRUE]
         /\ fifoPhase' = IF fifoPhase = "draining" THEN "drained" ELSE fifoPhase
         /\ UNCHANGED delivered
    ELSE /\ messageQueue' = Shift(messageQueue)[2]
         /\ mstate' = [ms EXCEPT ![Shift(messageQueue)[1]] = "replay"]
         /\ resp' = rs
         /\ ssePc' = [ssePc EXCEPT ![c] = "handling"]
         /\ cur' = [cur EXCEPT ![c] = Shift(messageQueue)[1]]
         /\ delivered' = Append(delivered, Shift(messageQueue)[1])
         /\ UNCHANGED <<listener, fifoPhase>>

\* GET /sse with mcpServer set: the transport is assigned, then connect is
\* called and awaited.
SseGetConnect ==
    /\ AppReachable
    /\ nextConn <= MaxConns
    /\ mcpServer # 0
    /\ transport' = nextConn
    /\ tstate' = [tstate EXCEPT ![nextConn] = "created"]
    /\ ssePc' = [ssePc EXCEPT ![nextConn] = "connecting"]
    /\ fifoPhase' = IF fifoPhase = "pre" THEN "draining" ELSE fifoPhase
    /\ nextConn' = nextConn + 1
    /\ UNCHANGED <<messageQueue, cur, listener, gone, mstate, resp, misrouted,
                   delivered, nextMsg>>
    /\ UNCHANGED lifeVars
    /\ UNCHANGED toolVars

\* GET /sse with mcpServer undefined: the transport is assigned, the response
\* is ended with 500 and the handler returns.
SseGetNoServer ==
    /\ AppReachable
    /\ nextConn <= MaxConns
    /\ mcpServer = 0
    /\ transport' = nextConn
    /\ tstate' = [tstate EXCEPT ![nextConn] = "created"]
    /\ ssePc' = [ssePc EXCEPT ![nextConn] = "failed"]
    /\ fifoPhase' = IF fifoPhase = "pre" THEN "draining" ELSE fifoPhase
    /\ nextConn' = nextConn + 1
    /\ UNCHANGED <<messageQueue, cur, listener, gone, mstate, resp, misrouted,
                   delivered, nextMsg>>
    /\ UNCHANGED lifeVars
    /\ UNCHANGED toolVars

\* The awaited mcpServer.connect resolves: the drain loop starts.
SseConnected(c) ==
    /\ ~deactivated
    /\ ssePc[c] = "connecting"
    /\ tstate' = [tstate EXCEPT ![c] = IF @ = "closed" THEN "closed" ELSE "connected"]
    /\ DrainFrom(c, mstate, resp)
    /\ UNCHANGED <<transport, gone, misrouted, nextMsg, nextConn>>
    /\ UNCHANGED lifeVars
    /\ UNCHANGED toolVars

\* The awaited mcpServer.connect rejects: the outer catch ends the response
\* with 500; `transport` keeps the transport that never connected.
SseConnectFailed(c) ==
    /\ ~deactivated
    /\ ssePc[c] = "connecting"
    /\ ssePc' = [ssePc EXCEPT ![c] = "failed"]
    /\ UNCHANGED <<transport, messageQueue, tstate, cur, listener, gone, mstate, resp,
                   misrouted, delivered, nextMsg, nextConn, fifoPhase>>
    /\ UNCHANGED lifeVars
    /\ UNCHANGED toolVars

\* The handlePostMessage awaited by the drain loop settles: on success the
\* transport has completed the response, on failure the inner catch only logs
\* it; the loop goes on either way.
DrainReturn(c) ==
    /\ ~deactivated
    /\ ssePc[c] = "handling"
    /\ \E ok \in BOOLEAN :
        DrainFrom(c, [mstate EXCEPT ![cur[c]] = "done"],
                  [resp EXCEPT ![cur[c]] = IF ok THEN "handled" ELSE "none"])
    /\ UNCHANGED <<transport, tstate, gone, misrouted, nextMsg, nextConn>>
    /\ UNCHANGED lifeVars
    /\ UNCHANGED toolVars

\* ---------------------------------------------------------------- 'close'
\* The client of connection c disconnects after the 'close' listener was
\* registered: the listener closes whatever `transport` holds and nulls it.
ClientCloseHandled(c) ==
    /\ ~deactivated
    /\ ssePc[c] \notin {"idle", "orphaned"}
    /\ ~gone[c]
    /\ listener[c]
    /\ gone' = [gone EXCEPT ![c] = TRUE]
    /\ tstate' = IF transport # 0
                 THEN [tstate EXCEPT ![transport] = "closed"] ELSE tstate
    /\ transport' = 0
    /\ UNCHANGED <<messageQueue, ssePc, cur, listener, mstate, resp, misrouted,
                   delivered, nextMsg, nextConn, fifoPhase>>
    /\ UNCHANGED lifeVars
    /\ UNCHANGED toolVars

\* The client of connection c disconnects before the listener is registered:
\* the 'close' event finds no listener, and one registered later never runs.
ClientCloseMissed(c) ==
    /\ ~deactivated
    /\ ssePc[c] \notin {"idle", "orphaned"}
    /\ ~gone[c]
    /\ ~listener[c]
    /\ gone' = [gone EXCEPT ![c] = TRUE]
    /\ UNCHANGED <<transport, messageQueue, tstate, ssePc, cur, listener, mstate,
                   resp, misrouted, delivered, nextMsg, nextConn, fifoPhase>>
    /\ UNCHANGED lifeVars
    /\ UNCHANGED toolVars

\* ---------------------------------------------------------------- specification
Next ==
    \/ Activate
    \/ StartRejected
    \/ StartFresh
    \/ StopNothing
    \/ StopCommand
    \/ Deactivate
    \/ Dispose
    \/ PostQueued
    \/ PostDirect
    \/ SseGetConnect
    \/ SseGetNoServer
    \/ \E c \in Conns : SseConnected(c)
    \/ \E c \in Conns : SseConnectFailed(c)
    \/ \E c \in Conns : DrainReturn(c)
    \/ \E c \in Conns : ClientCloseHandled(c)
    \/ \E c \in Conns : ClientCloseMissed(c)

Spec == Init /\ [][Next]_vars

\* ---------------------------------------------------------------- call_tool specification
\* One call_tool request handed to the handler while the session channel is
\* live: the server was started by activation and one GET /sse has connected
\* and registered its close listener.
LiveChannel ==
    /\ mcpServer = 1
    /\ httpServer = 1
    /\ started = 1
    /\ serverInfo = 1
    /\ commands = TRUE
    /\ deactivated = FALSE
    /\ disposed = FALSE
    /\ srvCloses = [k \in Starts |-> 0]
    /\ lsn = [k \in Starts |-> IF k = 1 THEN "listening" ELSE "none"]
    /\ lsnCloses = [k \in Starts |-> 0]
    /\ lastOp = "activate:started"
    /\ transport = 1
    /\ messageQueue = <<>>
    /\ tstate = [c \in Conns |-> IF c = 1 THEN "connected" ELSE "none"]
    /\ ssePc = [c \in Conns |-> IF c = 1 THEN "done" ELSE "idle"]
    /\ cur = [c \in Conns |-> 0]
    /\ listener = [c \in Conns |-> c = 1]
    /\ gone = [c \in Conns |-> FALSE]
    /\ mstate = [m \in Msgs |-> "new"]
    /\ resp = [m \in Msgs |-> "none"]
    /\ misrouted = FALSE
    /\ delivered = <<>>
    /\ nextMsg = 1
    /\ nextConn = 2
    /\ fifoPhase = "drained"

ToolInit ==
    /\ LiveChannel
    /\ call \in Calls
    /\ toolPc = "pending"
    /\ response = NoResponse
    /\ providerCalls = 0

\* The handler runs to its return (or to the point it lets an error escape).
Invoke ==
    /\ toolPc = "pending"
    /\ response' = CallToolHandler(call)
    /\ providerCalls' = providerCalls + (IF ReachesProvider(call) THEN 1 ELSE 0)
    /\ toolPc' = "done"
    /\ UNCHANGED <<call, lifeVars, sessVars>>

ToolNext == Invoke

ToolSpec == ToolInit /\ [][ToolNext]_vars

TypeOK ==
    /\ mcpServer \in 0..MaxStarts
    /\ httpServer \in 0..MaxStarts
    /\ transport \in 0..MaxConns
    /\ started \in 0..MaxStarts
    /\ nextMsg \in 1..(MaxMsgs + 1)
    /\ nextConn \in 1..(MaxConns + 1)
    /\ \A m \in Msgs : InQueue(m) <=> mstate[m] = "queued"
    /\ \A m \in Msgs : resp[m] \in {"none", "handled", "error500"}
    /\ \A c \in Conns : tstate[c] \in {"none", "created", "connected", "closed"}
    /\ \A c \in Conns : (cur[c] # 0) <=> (ssePc[c] = "handling")
    /\ fifoPhase \in {"pre", "draining", "drained", "off"}
    /\ \A m \in Msgs : mstate[m] \in
         {"new", "queued", "replay", "done", "dropped", "orphaned"}
    /\ \A c \in Conns : ssePc[c] \in
         {"idle", "connecting", "handling", "done", "failed", "orphaned"}

\* ---------------------------------------------------------------- observations
\* The POSTs the current app has received, in the order it received them
\* (ids are given in arrival order).
Received ==
    SelectSeq([i \in 1..MaxMsgs |-> i], LAMBDA m : mstate[m] \notin {"new", "orphaned"})

IsPrefix(s, t) == Len(s) <= Len(t) /\ SubSeq(t, 1, Len(s)) = s

\* How often message m was handed to handlePostMessage.
Handed(m) == Cardinality({i \in 1..Len(delivered) : delivered[i] = m})

\* ---------------------------------------------------------------- claims

\* C1: messages POSTed before any GET /sse, with no POST until the drain has
\* ended, are handed to handlePostMessage in the order they were enqueued:
\* while draining the hand-over log is a prefix of the arrival order, and once
\* a drain loop has ended it is the whole arrival order.
C1_FifoReplay ==
    /\ fifoPhase \in {"draining", "drained"} => IsPrefix(delivered, Received)
    /\ fifoPhase = "drained" => delivered = Received

\* C1 witness: two messages were queued before the first GET /sse and the
\* drain has ended.
C1_Witness ==
    /\ fifoPhase = "drained"
    /\ Len(delivered) >= 2

\* C2 (as claimed): under every interleaving the hand-over order equals the
\* arrival order, and no message is handed over while an earlier-received one
\* is still queued.
C2_DeliveryInReceiptOrder ==
    /\ \A i, j \in 1..Len(delivered) : i < j => delivered[i] < delivered[j]
    /\ \A i \in 1..Len(delivered) : \A j \in 1..Len(messageQueue) :
          delivered[i] < messageQueue[j]

\* C3 (as claimed): a POST handled while no channel is live has its response
\* completed by the handler, so no queued message has an unwritten response.
C3_QueuedIsAcknowledged ==
    \A m \in Msgs : mstate[m] = "queued" => resp[m] # "none"

\* C4 (as claimed): a POST is queued exactly when the session is not live and
\* handed to the transport only when it is live.
C4_RoutedByLiveness == ~misrouted

\* C5 (as claimed): every message that has left the pending queue was handed
\* to handlePostMessage exactly once, never skipped.
C5_DrainedExactlyOnce ==
    \A m \in Msgs :
        mstate[m] \in {"replay", "done", "dropped"} => Handed(m) = 1

\* C6 (as claimed): no posted request stays unanswered forever, so a request
\* the program holds no more (neither queued nor awaited) has its response.
C6_EveryPostAnswered ==
    \A m \in Msgs : mstate[m] \in {"done", "dropped"} => resp[m] # "none"

\* C7 (as claimed): in no state are two SSE transports connected and unclosed
\* with their clients still there.
C7_AtMostOneOpenTransport ==
    Cardinality({c \in Conns : tstate[c] = "connected" /\ ~gone[c]}) <= 1

\* C8 (as claimed): a connection whose client has disconnected has, once its
\* GET /sse handler has run to its end and nothing is pending for any
\* connection, a closed transport that `transport` does not refer to.
C8_DisconnectClosesTransport ==
    (\A c \in Conns : ssePc[c] \in {"connecting", "handling", "done", "failed"} =>
                         (gone[c] /\ ssePc[c] \in {"done", "failed"}))
    => \A c \in Conns : ssePc[c] = "done" =>
                         (tstate[c] = "closed" /\ transport # c)

\* C9: with the singleton set, a start creates no server and leaves the
\* singleton as it is (only a stop clears it); a start reported as already
\* running found a listening listener; at most one listener listens.
C9_NoSecondStart ==
    /\ [](Cardinality({k \in Starts : lsn[k] = "listening"}) <= 1)
    /\ [](lastOp = "start:alreadyRunning" =>
              (httpServer # 0 /\ lsn[httpServer] = "listening"))
    /\ [][httpServer # 0 =>
              (/\ started' = started
               /\ httpServer' \in {httpServer, 0}
               /\ mcpServer' \in {mcpServer, 0})]_vars

\* C9 witness: a start command was rejected as already running.
C9_Witness ==
    /\ lastOp = "start:alreadyRunning"
    /\ httpServer # 0
    /\ started < MaxStarts

\* C10 (as claimed): every stop path clears the singleton, and no handle is
\* closed a second time.
C10_StopIdempotent ==
    /\ lastOp \in {"stop:stopped", "deactivate", "dispose"} =>
          (mcpServer = 0 /\ httpServer = 0)
    /\ \A k \in Starts : srvCloses[k] <= 1 /\ lsnCloses[k] <= 1

\* ---------------------------------------------------------------- call_tool claims
\* The request was find_usages, the provider was called and returned.
ProviderReturned ==
    /\ toolPc = "done"
    /\ ReachesProvider(call)
    /\ call.provider.kind # "throws"

\* The provider returned a list of locations.
ProviderLocations == ProviderReturned /\ call.provider.kind = "locations"

\* Indices of the returned locations whose preview cannot be resolved.
FailedPreviews == {i \in 1..Len(call.provider.locs) : ~call.previewOk[i]}

\* C11: when the provider returns zero locations (an empty list as well as no
\* value), the response is "No references found" with isError=false, never an
\* error and never a serialized empty list.
C11_ZeroLocationsExplicitPayload ==
    (ProviderReturned /\ Len(call.provider.locs) = 0)
        => response = Envelope(<<"No references found">>, "false")

\* C12: when the preview of exactly one of N returned locations fails, the
\* result has all N entries, the failing one carries the "Preview unavailable"
\* sentinel, and the response is not an error.
C12_FailedPreviewKeepsEntry ==
    (ProviderLocations /\ Cardinality(FailedPreviews) = 1)
        => /\ response.json
           /\ response.isError # "true"
           /\ Len(response.refs) = Len(call.provider.locs)
           /\ \A i \in FailedPreviews :
                response.refs[i].preview = <<"Preview unavailable">>

Advertised(name) == \E i \in 1..Len(ListTools) : ListTools[i] = name

\* C14: the response is the error "Unknown tool: <name>" with isError=true if
\* and only if <name> is not a tool name list_tools returns.
C14_UnknownIffNotListed ==
    toolPc = "done"
        => ((response = Envelope(<<"Error: ", "Unknown tool: ", call.name>>, "true"))
                <=> ~Advertised(call.name))

\* C14 witness: an advertised name was dispatched as far as the provider.
C14_Witness ==
    /\ ProviderReturned
    /\ Advertised(call.name)
    /\ providerCalls = 1

\* The arguments are not a structured object, or textDocument.uri is missing
\* or not a string.
BadArguments ==
    \/ call.args.kind # "object"
    \/ call.args.uri \in {"missing", "number"}

\* C15: find_usages with arguments that are not an object, or without a string
\* textDocument.uri, returns "Invalid arguments" with isError=true and the
\* provider is never called.
C15_InvalidArgumentsBeforeProvider ==
    (toolPc = "done" /\ call.name = "find_usages" /\ BadArguments)
        => /\ providerCalls = 0
           /\ response \in
                {Envelope(<<"Invalid arguments: arguments must be an object.">>, "true"),
                 Envelope(<<"Invalid arguments: textDocument.uri is required.">>, "true")}

\* The provider was called and failed.
ProviderFailed ==
    /\ toolPc = "done"
    /\ ReachesProvider(call)
    /\ call.provider.kind = "throws"

\* C16: when the provider call fails, the response is isError=true with the
\* fixed text "Failed to find references", and the same request failing for
\* any other cause gets the identical response.
C16_ProviderCauseNotObservable ==
    ProviderFailed
        => /\ response = Envelope(<<"Error: ", "Failed to find references">>, "true")
           /\ \A c \in Causes :
                CallToolHandler([call EXCEPT !.provider.cause = c]) = response

\* C16 witness: the provider was called and failed with a timeout.
C16_Witness ==
    /\ ProviderFailed
    /\ call.provider.cause = "timeout"
    /\ providerCalls = 1
    /\ response.sent

\* Something the handler does failed: the tool is unknown, the arguments are
\* not an object, or the uri, the position or the provider call threw.
ErrorPath ==
    \/ call.name # "find_usages"
    \/ Falsy(call.args) \/ TypeOf(call.args) # "object"
    \/ UriParse(call.args, call.parseThrows) = "throws"
    \/ PositionThrows(call.args)
    \/ call.provider.kind = "throws"

\* C17: for every request the handler returns exactly one response envelope,
\* every error path returns isError=true in that envelope, and handling the
\* request neither closes nor clears the session transport.
C17_ErrorsStayInBand ==
    /\ [](toolPc = "done" => response.sent)
    /\ []((toolPc = "done" /\ ErrorPath) => response.isError = "true")
    /\ [][toolPc' = "done" => (transport' = transport /\ tstate' = tstate)]_vars

\* C17 witness: the uri could not be parsed and the channel is still live.
C17_Witness ==
    /\ toolPc = "done"
    /\ call.name = "find_usages"
    /\ call.args.kind = "object"
    /\ UriParse(call.args, call.parseThrows) = "throws"
    /\ response.isError = "true"
    /\ SessionState = "live"

\* ---------------------------------------------------------------- failure claims
\* C18 (as claimed): a message whose dispatch has ended was either handled or,
\* its dispatch having failed, has the 500 response with the JSON-RPC error
\* body, whether it was delivered directly or replayed from the queue.
C18_DispatchFailureAnswered500 ==
    \A m \in Msgs : mstate[m] = "done" => resp[m] \in {"handled", "error500"}

\* The newest connection, when its handler is establishing, draining or live
\* and its client has not disconnected.
NewestActive(b) ==
    /\ b = nextConn - 1
    /\ ssePc[b] \in {"connecting", "handling", "done"}
    /\ ~gone[b]

\* C19 (as claimed): a transport is closed only by the close of its own
\* connection, `transport` is not nulled while the newest connection is
\* establishing, draining or live, and no queued message is dropped by a drain
\* loop that finds `transport` nulled.
C19_CloseTearsDownOwnChannelOnly ==
    /\ \A c \in Conns : tstate[c] = "closed" => gone[c]
    /\ \A b \in Conns : NewestActive(b) => transport = b
    /\ \A m \in Msgs : mstate[m] # "dropped"

\* C20 (as claimed): a start that failed (the listener did not bind) leaves
\* neither global set, so the next start command is not rejected.
C20_FailedStartLeavesNothingSet ==
    /\ \A k \in Starts : lsn[k] = "unbound" => (httpServer # k /\ mcpServer # k)
    /\ lastOp = "start:error" => httpServer = 0

====
